---- MODULE Spec2Model ----
(***************************************************************************)
(* A model of flask_toolkits/routing.py: the APIRouter's route             *)
(* registration (signature resolution, rule normalisation, endpoint        *)
(* registry) and its per-request binding pipeline (get_kwargs and the      *)
(* wrapped handler modified_func).                                         *)
(*                                                                         *)
(* Strings that the code inspects character by character (path rules) are  *)
(* sequences of one-character strings.  Python values are tagged records.  *)
(* A call that can raise returns a record with field exc ("none" when it   *)
(* returned normally).  A method whose later statements read the result of *)
(* earlier ones is split into operators that take those results as         *)
(* parameters.                                                             *)
(***************************************************************************)
EXTENDS Naturals, Sequences, FiniteSets, TLC

VARIABLES
    all_endpoints,      \* EndpointDefinition._all_endpoints (process wide)
    defined_endpoints,  \* APIRouter.defined_endpoints
    paired_signature,   \* APIRouter.paired_signature
    url_rules,          \* what Blueprint.add_url_rule recorded for the router
    dependecies,        \* APIRouter.dependecies (sic)
    handlers,           \* the callables: their annotations and default objects
    resolved,           \* SpecSig: the calls of the signature resolver so far
    reg,                \* observation of the last registration call
    last,               \* observation of the last request served
    rule_in,            \* SpecRule: the rule string under test
    rule_res            \* SpecRule: what the rule normaliser did with it

vars == <<all_endpoints, defined_endpoints, paired_signature, url_rules,
          dependecies, handlers, resolved, reg, last, rule_in, rule_res>>

(***************************************************************************)
(* Bounds of the model.                                                    *)
(***************************************************************************)
MaxSegs == 4    \* SpecRule: a rule string is at most this many segments
MaxRegs == 2        \* Spec: at most this many registration calls
MaxResolves == 2    \* SpecSig: at most this many calls of the resolver

(***************************************************************************)
(* Python strings as character sequences; dicts as functions.              *)
(***************************************************************************)
Count(s, c) == Cardinality({i \in 1..Len(s) : s[i] = c})

\* s.index(c), 1-based; 0 when c does not occur
IndexOf(s, c) ==
    IF \E i \in 1..Len(s) : s[i] = c
    THEN CHOOSE i \in 1..Len(s) : s[i] = c /\ \A j \in 1..(i-1) : s[j] # c
    ELSE 0

LastIndexOf(s, c) ==
    IF \E i \in 1..Len(s) : s[i] = c
    THEN CHOOSE i \in 1..Len(s) : s[i] = c /\ \A j \in (i+1)..Len(s) : s[j] # c
    ELSE 0

\* number of places where pat occurs in s (re.findall of a literal pattern
\* that cannot overlap itself)
Occurrences(s, pat) ==
    Cardinality({i \in 1..Len(s) :
        /\ i + Len(pat) - 1 <= Len(s)
        /\ SubSeq(s, i, i + Len(pat) - 1) = pat})

SeqToSet(q) == {q[i] : i \in 1..Len(q)}

One(k, v) == [x \in {k} |-> v]

\* {**a, **b}, a.update(b)
Merged(a, b) ==
    [k \in (DOMAIN a) \cup (DOMAIN b) |-> IF k \in DOMAIN b THEN b[k] ELSE a[k]]

(***************************************************************************)
(* APIRouter.validate_rule, lines 680-702.                                 *)
(***************************************************************************)
\* the span from i to j when both exist and are in this order
SpanMatches(rule, i, j) ==
    IF i > 0 /\ j > i THEN {SubSeq(rule, i, j)} ELSE {}

\* re.compile(r"[<]{1}.*[>]{1}").findall(rule): '.*' is greedy, so the one
\* match runs from the first '<' to the last '>' after it.
BracketMatches(rule) ==
    SpanMatches(rule, IndexOf(rule, "<"), LastIndexOf(rule, ">"))

\* the assert of line 683
RuleAssertionHolds(rule) ==
    \A text \in BracketMatches(rule) : Count(text, ":") \in {0, 1}

\* lines 693-694: the text after the first ':' of a placeholder
StripType(cur) ==
    IF Count(cur, ":") > 0 THEN SubSeq(cur, IndexOf(cur, ":") + 1, Len(cur)) ELSE cur

\* lines 693-696 with the stripped placeholder text
ClosePlaceholder(st, name) ==
    [st EXCEPT !.start_path[Len(st.start_path)] = name,
               !.start_write_path = FALSE,
               !.new_rule = @ \o <<"<">> \o name \o <<">">>]

\* one iteration of the loop of lines 688-701 on character c
RewriteStep(st, c) ==
    IF st.exc # "none" THEN st
    ELSE IF c = "<" THEN
        [st EXCEPT !.start_path = Append(@, <<>>), !.start_write_path = TRUE]
    ELSE IF c = ">" THEN
        IF st.start_path = <<>> THEN [st EXCEPT !.exc = "IndexError"]
        ELSE ClosePlaceholder(st, StripType(st.start_path[Len(st.start_path)]))
    ELSE IF ~st.start_write_path THEN
        [st EXCEPT !.new_rule = Append(@, c)]
    ELSE [st EXCEPT !.start_path[Len(st.start_path)] = Append(@, c)]

RECURSIVE RewriteLoop(_, _, _)
RewriteLoop(rule, i, st) ==
    IF i > Len(rule) THEN st
    ELSE RewriteLoop(rule, i + 1, RewriteStep(st, rule[i]))

RewriteResult(st) ==
    IF st.exc # "none" THEN [exc |-> st.exc, value |-> <<>>]
    ELSE [exc |-> "none", value |-> st.new_rule]

validate_rule(rule) ==
    IF ~RuleAssertionHolds(rule) THEN [exc |-> "AssertionError", value |-> <<>>]
    ELSE RewriteResult(RewriteLoop(rule, 1,
             [new_rule |-> <<>>, start_write_path |-> FALSE,
              start_path |-> <<>>, exc |-> "none"]))

(***************************************************************************)
(* APIRouter.validate_rule_for_swagger, lines 665-678.                     *)
(***************************************************************************)
SwaggerStep(st, c) ==
    IF ~st.opening_found /\ c = "<" THEN
        [opening_found |-> TRUE, new_rule |-> Append(st.new_rule, "{")]
    ELSE IF st.opening_found /\ c = ">" THEN
        [opening_found |-> FALSE, new_rule |-> Append(st.new_rule, "}")]
    ELSE [st EXCEPT !.new_rule = Append(@, c)]

RECURSIVE SwaggerLoop(_, _, _)
SwaggerLoop(rule, i, st) ==
    IF i > Len(rule) THEN st
    ELSE SwaggerLoop(rule, i + 1, SwaggerStep(st, rule[i]))

validate_rule_for_swagger(rule) ==
    SwaggerLoop(rule, 1, [opening_found |-> FALSE, new_rule |-> <<>>]).new_rule

(***************************************************************************)
(* Declared types (annotations).  A class carries its base; a generic      *)
(* alias (Optional[...], List[...]) carries its __args__.                  *)
(***************************************************************************)
NoType == [kind |-> "none"]      \* Python None / no annotation
Class(name, base) == [kind |-> "class", name |-> name, base |-> base]
Generic(name, args) == [kind |-> "generic", name |-> name, args |-> args]

T_str == Class("str", "builtin")
T_Any == [kind |-> "special", name |-> "Any"]
T_FileStorage == Class("FileStorage", "builtin")
T_Color == Class("Color", "Enum")
T_Item == Class("Item", "BaseModel")
T_OptItem == Generic("Optional", <<T_Item, Class("NoneType", "builtin")>>)

IsBaseModelClass(t) == t.kind = "class" /\ t.base = "BaseModel"

\* line 663: b if b else annot
FirstArgOr(b, annot) == IF b # NoType THEN b ELSE annot

\* APIRouter.get_pydantic_from_annots, lines 654-663.  The loop over
\* __args__ returns in its first iteration.
RECURSIVE get_pydantic_from_annots(_)
get_pydantic_from_annots(annot) ==
    IF IsBaseModelClass(annot) THEN annot
    ELSE IF annot.kind = "generic" /\ Len(annot.args) > 0
    THEN FirstArgOr(get_pydantic_from_annots(annot.args[1]), annot)
    ELSE NoType

(***************************************************************************)
(* Parameter objects (flask_toolkits.params) and declared parameters.      *)
(***************************************************************************)
NoAlias == ""           \* alias=None
Required == "..."       \* Ellipsis: no default, the value is required
NoDefault == "None"     \* default None

Param(cls, default, alias) ==
    [cls |-> cls, default |-> default, alias |-> alias, pydantic_model |-> NoType]
Query(default) == Param("Query", default, NoAlias)
Path(default) == Param("Path", default, NoAlias)

\* Body(default, pydantic_model=...) as line 650 builds it: no alias is passed
BodyOf(default, model) ==
    [cls |-> "Body", default |-> default, alias |-> NoAlias, pydantic_model |-> model]

_ParamsClasses == {"Query", "Header", "Path", "Body", "Form", "FormURLEncoded", "File"}
_FormClasses == {"Form", "FormURLEncoded", "File"}
_BodyClasses == {"Body"}

\* a declared parameter of a callable: name, default object, annotation.
\* default.cls is "_empty" (no default), "plain" (a plain value), "Depends"
\* (obj names the callable, "" for none) or a parameter class.
Decl(name, default, annot) == [name |-> name, default |-> default, annot |-> annot]
Empty == [cls |-> "_empty", default |-> Required, alias |-> NoAlias, obj |-> ""]
Depends(obj) == [cls |-> "Depends", default |-> NoDefault, alias |-> NoAlias, obj |-> obj]
Given(cls, default, alias) == [cls |-> cls, default |-> default, alias |-> alias, obj |-> ""]

ParamSignature(name, type, po) == [name |-> name, type |-> type, po |-> po]

\* the characters of a parameter name, as the regular expression of
\* check_params_in_path sees them
KeyChars(k) == IF k = "id" THEN <<"i", "d">> ELSE <<k>>

(***************************************************************************)
(* The callables of the example application: handlers and dependencies.    *)
(* body is what the callable does when called: "return", or the exception  *)
(* class it raises.                                                        *)
(***************************************************************************)
Func(params, body) == [params |-> params, body |-> body]

Funcs ==
    [ index      |-> Func(<<>>, "return"),
      get_item   |-> Func(<<Decl("id", Empty, NoType)>>, "return"),
      paint      |-> Func(<<Decl("color", Given("Query", Required, NoAlias), T_Color)>>, "return"),
      search     |-> Func(<<Decl("q", Given("Query", NoDefault, "query"), T_str),
                            Decl("token", Given("Header", NoDefault, "X-Token"), T_str)>>, "return"),
      create     |-> Func(<<Decl("item", Empty, T_Item)>>, "return"),
      create_opt |-> Func(<<Decl("item", Given("Body", NoDefault, "payload"), T_OptItem)>>, "return"),
      create2    |-> Func(<<Decl("user", Empty, T_Item),
                            Decl("meta", Given("Body", Required, "m"), T_Item)>>, "return"),
      annotate   |-> Func(<<Decl("item", Empty, T_Item),
                            Decl("note", Given("Body", NoDefault, "n"), T_str)>>, "return"),
      upload     |-> Func(<<Decl("f", Given("File", Required, NoAlias), T_FileStorage)>>, "return"),
      upload_as  |-> Func(<<Decl("f", Given("File", Required, "upload"), T_FileStorage),
                            Decl("title", Given("Form", NoDefault, "t"), T_str)>>, "return"),
      lookup     |-> Func(<<Decl("q", Given("Query", NoDefault, "id"), T_str)>>, "return"),
      by_dep     |-> Func(<<Decl("d", Depends("get_item"), NoType)>>, "return"),
      typed_dep  |-> Func(<<Decl("t", Depends(""), NoType)>>, "return"),
      parse      |-> Func(<<>>, "ValidationError"),
      crash      |-> Func(<<>>, "RuntimeError"),
      auth       |-> Func(<<Decl("id", Empty, NoType)>>, "return") ]

(***************************************************************************)
(* A signature (Dict[str, ParamSignature]) is a sequence of ParamSignature *)
(* with distinct names, in insertion order.                                *)
(***************************************************************************)
SigKeys(pair) == {pair[i].name : i \in 1..Len(pair)}
SigGet(pair, k) == pair[CHOOSE i \in 1..Len(pair) : pair[i].name = k]

\* pair[k] = ps
SigPut(pair, ps) ==
    IF ps.name \in SigKeys(pair)
    THEN [i \in 1..Len(pair) |-> IF pair[i].name = ps.name THEN ps ELSE pair[i]]
    ELSE Append(pair, ps)

\* pair.update(other)
RECURSIVE SigUpdate(_, _)
SigUpdate(pair, other) ==
    IF other = <<>> THEN pair
    ELSE SigUpdate(SigPut(pair, Head(other)), Tail(other))

(***************************************************************************)
(* APIRouter.check_params_in_path, lines 809-818.                          *)
(***************************************************************************)
MatchedKeys(matched) ==
    IF matched = 1 THEN [exc |-> "none", value |-> TRUE]
    ELSE IF matched > 1 THEN [exc |-> "SwaggerPathError", value |-> FALSE]
    ELSE [exc |-> "none", value |-> FALSE]

check_params_in_path(key, path) ==
    MatchedKeys(Occurrences(path, <<"<">> \o KeyChars(key) \o <<">">>))

(***************************************************************************)
(* APIRouter.define_body_from_annots, lines 647-652.                       *)
(***************************************************************************)
BodyIfModel(default_value, pydantic_model) ==
    IF pydantic_model # NoType
    THEN BodyOf(default_value.default, pydantic_model)
    ELSE default_value

define_body_from_annots(default_value, annot) ==
    BodyIfModel(default_value, get_pydantic_from_annots(annot))

(***************************************************************************)
(* APIRouter._get_func_signature, lines 590-645.  deps is the router's     *)
(* dependecies list at the time of the call, hs the callables (their       *)
(* annotations and default objects) as they are at the time of the call;   *)
(* the result holds them as the call leaves them.                          *)
(***************************************************************************)
\* lines 598-617: the default value of a parameter that is not spliced in
DefaultValue(d) ==
    IF d.cls = "_empty" THEN Query(Required)
    ELSE IF d.cls = "Depends" THEN Query(NoDefault)
    ELSE IF d.cls = "plain" THEN Query(d.default)
    ELSE Param(d.cls, d.default, d.alias)

\* lines 623-632: the declared type
DefaultType(p, default_value) ==
    IF p.annot # NoType THEN
        IF default_value.cls \in _FormClasses /\ p.annot = T_FileStorage
        THEN T_str ELSE p.annot
    ELSE IF default_value.cls \in _FormClasses THEN T_Any ELSE T_str

\* lines 634-638
SignatureOf(p, default_value, default_type) ==
    ParamSignature(p.name, default_type,
        IF default_value.cls \notin _FormClasses
        THEN define_body_from_annots(default_value, default_type)
        ELSE default_value)

\* lines 623-638 once the path check is done
TypedParam(p, default_value) ==
    SignatureOf(p, default_value, DefaultType(p, default_value))

\* lines 619-638 with the result of check_params_in_path
CheckedParam(p, default_value, inpath) ==
    IF inpath.exc # "none"
    THEN [exc |-> inpath.exc, ps |-> ParamSignature(p.name, NoType, default_value)]
    ELSE [exc |-> "none",
          ps |-> TypedParam(p, IF inpath.value THEN Path(default_value.default)
                               ELSE default_value)]

ResolveParam(path, p) ==
    CheckedParam(p, DefaultValue(p.default), check_params_in_path(p.name, path))

\* lines 602-606: a parameter whose default is a Depends gets the
\* annotation str when it has none, and the Depends without obj takes the
\* annotation as its obj.  Both are writes to the callable's own objects.
MarkDepends(p) ==
    [p EXCEPT !.annot = IF @ = NoType THEN T_str ELSE @,
              !.default.obj = IF @ # "" THEN @
                              ELSE IF p.annot = NoType THEN "str" ELSE p.annot.name]

RECURSIVE _get_func_signature(_, _, _, _)
RECURSIVE ParamLoop(_, _, _, _, _, _)
RECURSIVE ParamStep(_, _, _, _, _, _, _)
RECURSIVE DependsStep(_, _, _, _, _, _)
RECURSIVE AfterResolve(_, _, _, _, _, _, _)
RECURSIVE AfterDepends(_, _, _, _, _, _)

\* the loop of lines 596-638 from the i-th declared parameter of func on;
\* hs holds the callables as the calls so far left them
ParamLoop(path, func, i, pair, deps, hs) ==
    IF i > Len(hs[func].params) THEN [exc |-> "none", pair |-> pair, hs |-> hs]
    ELSE ParamStep(path, func, i, pair, deps, hs, hs[func].params[i])

\* lines 598-617 for parameter p
ParamStep(path, func, i, pair, deps, hs, p) ==
    IF p.default.cls = "Depends"
    THEN DependsStep(path, func, i, pair, deps,
                     [hs EXCEPT ![func].params[i] = MarkDepends(p)])
    ELSE AfterResolve(path, func, i, pair, deps, hs, ResolveParam(path, p))

\* lines 607-611: the obj of the Depends is resolved by a recursive call.
\* An obj that is a builtin class (the annotation str) has no signature:
\* inspect.signature raises, and the bare except of line 610 makes the
\* parameter Query(None).
DependsStep(path, func, i, pair, deps, hs) ==
    IF hs[func].params[i].default.obj \in DOMAIN hs
    THEN AfterDepends(path, func, i, pair, deps,
                      _get_func_signature(path, hs[func].params[i].default.obj, deps, hs))
    ELSE AfterResolve(path, func, i, pair, deps, hs,
                      ResolveParam(path, hs[func].params[i]))

\* lines 608-611: splice and continue, or the bare except
AfterDepends(path, func, i, pair, deps, sub) ==
    IF sub.exc = "none"
    THEN ParamLoop(path, func, i + 1, SigUpdate(pair, sub.pair), deps, sub.hs)
    ELSE AfterResolve(path, func, i, pair, deps, sub.hs,
                      ResolveParam(path, sub.hs[func].params[i]))

\* line 638, or the exception of check_params_in_path
AfterResolve(path, func, i, pair, deps, hs, res) ==
    IF res.exc # "none" THEN [exc |-> res.exc, pair |-> pair, hs |-> hs]
    ELSE ParamLoop(path, func, i + 1, SigPut(pair, res.ps), deps, hs)

\* lines 640-645: every callable of deps is resolved by a call of this same
\* method, which walks deps again: with one callable in deps the recursion
\* never returns, and ends in RecursionError unless the first dependency's
\* own parameters raise before.
AfterFirstDependency(first) ==
    IF first.exc # "none" THEN first
    ELSE [exc |-> "RecursionError", pair |-> <<>>, hs |-> first.hs]

AfterOwnParams(path, deps, own) ==
    IF own.exc # "none" \/ deps = <<>> THEN own
    ELSE AfterFirstDependency(ParamLoop(path, deps[1], 1, <<>>, deps, own.hs))

_get_func_signature(path, func, deps, hs) ==
    AfterOwnParams(path, deps, ParamLoop(path, func, 1, <<>>, deps, hs))

(***************************************************************************)
(* APIRouter.get_params_aliases, lines 773-795, and convert_alias_to_name, *)
(* lines 797-799.                                                          *)
(***************************************************************************)
AliasKind(cls) ==
    CASE cls = "Path" -> "path"
      [] cls = "Header" -> "header"
      [] cls = "Query" -> "query"
      [] cls = "Body" -> "body"
      [] cls \in {"Form", "FormURLEncoded"} -> "form"
      [] cls = "File" -> "file"

\* po.alias or key
AliasOrKey(ps) == IF ps.po.alias # NoAlias THEN ps.po.alias ELSE ps.name

AliasesOfKind(paired_params, kind) ==
    [k \in {paired_params[i].name : i \in
               {j \in 1..Len(paired_params) : AliasKind(paired_params[j].po.cls) = kind}} |->
        AliasOrKey(SigGet(paired_params, k))]

get_params_aliases(paired_params) ==
    [kind \in {"path", "header", "query", "body", "form", "file"} |->
        AliasesOfKind(paired_params, kind)]

\* the wire names of the keys of input_name that aliases knows
convert_alias_to_name(aliases, input_name) ==
    {aliases[key] : key \in SeqToSet(input_name) \cap DOMAIN aliases}

\* APIRouter.count_required_body, lines 801-807
count_required_body(paired_params) ==
    Cardinality({i \in 1..Len(paired_params) : paired_params[i].po.cls = "Body"})

(***************************************************************************)
(* APIRouter.generate_endpoint_pydantic, lines 579-588: one field per      *)
(* signature entry; without body the Body fields lose their constraints.   *)
(***************************************************************************)
disable_constraint(po) == [po EXCEPT !.default = NoDefault]

SchemaField(pp, with_body) ==
    [name |-> pp.name, type |-> pp.type,
     po |-> IF ~with_body /\ pp.po.cls \in _BodyClasses
            THEN disable_constraint(pp.po) ELSE pp.po]

generate_endpoint_pydantic(name, paired_params, with_body) ==
    [name |-> name,
     fields |-> [i \in 1..Len(paired_params) |-> SchemaField(paired_params[i], with_body)]]

(***************************************************************************)
(* Python values.                                                          *)
(***************************************************************************)
Null == [kind |-> "null"]                                   \* None
Str(s) == [kind |-> "str", s |-> s]
EnumValue(cls, value) == [kind |-> "enum", cls |-> cls, value |-> value]
Dict(items) == [kind |-> "dict", items |-> items]           \* a dict / JSON object
ModelObj(cls, data) == [kind |-> "model", cls |-> cls, data |-> data]  \* a BaseModel instance
FileObj(name) == [kind |-> "file", name |-> name]           \* a FileStorage

NoItems == [k \in {} |-> Null]
Dummy == Str("__dummy")                                     \* line 731

\* bool(v) of the values a request carries
Truthy(v) == v # Null /\ v # Str("")

\* str.upper and str.lower on the names the model uses
Upper(s) ==
    CASE s = "get" -> "GET"
      [] s = "post" -> "POST"
      [] s = "put" -> "PUT"
      [] s = "delete" -> "DELETE"
      [] s = "patch" -> "PATCH"
      [] s = "foo" -> "FOO"
      [] OTHER -> s

Lower(s) ==
    CASE s = "GET" -> "get"
      [] s = "POST" -> "post"
      [] s = "PUT" -> "put"
      [] s = "DELETE" -> "delete"
      [] s = "PATCH" -> "patch"
      [] s = "FOO" -> "foo"
      [] s = "X-Token" -> "x-token"
      [] OTHER -> s

(***************************************************************************)
(* The structured schemas and enumerations of the example application and  *)
(* what pydantic does with them.                                           *)
(***************************************************************************)
EnumMembers == [Color |-> {"red", "blue"}]

\* Item: name is a required string, color an optional Color
ModelFields ==
    [Item |-> << [name |-> "name", type |-> T_str, required |-> TRUE],
                 [name |-> "color", type |-> T_Color, required |-> FALSE] >>]

Valid(v) == [exc |-> "none", value |-> v]
Invalid == [exc |-> "ValidationError", value |-> Null]

\* an instance of cls from the validated values got of its fields fs, or
\* the validation error
BuildModel(cls, fs, got) ==
    IF \E i \in 1..Len(fs) : got[i].exc # "none" THEN Invalid
    ELSE Valid(ModelObj(cls,
             [n \in {fs[i].name : i \in 1..Len(fs)} |->
                 got[CHOOSE i \in 1..Len(fs) : fs[i].name = n].value]))

RECURSIVE Coerce(_, _)
RECURSIVE ModelConstruct(_, _)
RECURSIVE FieldValue(_, _)

\* a sub-object that fails is a validation error of the enclosing model
Nested(m) == IF m.exc = "none" THEN m ELSE Invalid

\* pydantic's validation of value v as declared type t
Coerce(t, v) ==
    IF t.kind = "special" THEN Valid(v)
    ELSE IF t.kind = "generic" THEN
        IF v = Null THEN Valid(Null) ELSE Coerce(t.args[1], v)
    ELSE IF t.base = "Enum" THEN
        IF v.kind = "enum" /\ v.cls = t.name THEN Valid(v)
        ELSE IF v.kind = "str" /\ v.s \in EnumMembers[t.name]
        THEN Valid(EnumValue(t.name, v.s))
        ELSE Invalid
    ELSE IF t.base = "BaseModel" THEN
        IF v.kind = "model" /\ v.cls = t.name THEN Valid(v)
        ELSE IF v.kind = "dict" THEN Nested(ModelConstruct(t.name, v))
        ELSE Invalid
    ELSE IF v.kind = "str" THEN Valid(v)
    ELSE Invalid

\* the value of field f of a model built from items
FieldValue(f, items) ==
    IF f.name \in DOMAIN items THEN Coerce(f.type, items[f.name])
    ELSE IF f.required THEN Invalid ELSE Valid(Null)

\* cls(**v): v must be a mapping; each field is validated, unknown keys are
\* ignored
ModelConstruct(cls, v) ==
    IF v.kind # "dict" THEN [exc |-> "TypeError", value |-> Null]
    ELSE BuildModel(cls, ModelFields[cls],
             [i \in 1..Len(ModelFields[cls]) |-> FieldValue(ModelFields[cls][i], v.items)])

(***************************************************************************)
(* The generated schema (create_model on BaseSchema).                      *)
(***************************************************************************)
FieldNames(pydantic_model) ==
    [i \in 1..Len(pydantic_model.fields) |-> pydantic_model.fields[i].name]

\* the name a field is populated by: its alias when it has one
FieldWireName(f) == IF f.po.alias # NoAlias THEN f.po.alias ELSE f.name

\* BaseSchema.get_non_exist_var_in_kwargs: the fields absent from kwargs
get_non_exist_var_in_kwargs(pydantic_model, kwargs) ==
    SelectSeq(FieldNames(pydantic_model), LAMBDA k : k \notin DOMAIN kwargs)

\* the value of schema field f: a missing or None value of a required field
\* and a value that cannot be coerced fail
SchemaFieldValue(f, kwargs) ==
    IF FieldWireName(f) \in DOMAIN kwargs /\ kwargs[FieldWireName(f)] # Null
    THEN Coerce(f.type, kwargs[FieldWireName(f)])
    ELSE IF f.po.default = Required THEN Invalid ELSE Valid(Null)

\* pydantic_model(**kwargs): the instance holds one attribute per field,
\* keyed by the field's name
ValidateModel(pydantic_model, kwargs) ==
    BuildModel(pydantic_model.name, pydantic_model.fields,
        [i \in 1..Len(pydantic_model.fields) |->
            SchemaFieldValue(pydantic_model.fields[i], kwargs)])

(***************************************************************************)
(* APIRouter.fill_all_enum_value, lines 566-577.                           *)
(***************************************************************************)
RECURSIVE fill_all_enum_value(_)
fill_all_enum_value(o) ==
    IF o.kind = "dict"
    THEN Dict([k \in DOMAIN o.items |-> fill_all_enum_value(o.items[k])])
    ELSE IF o.kind = "enum" THEN Str(o.value)
    ELSE o

\* vars(o) of a model instance: its attributes
Vars(o) == o.data

(***************************************************************************)
(* APIRouter.get_kwargs, lines 704-771.  A request is a record of its      *)
(* method, args, headers (keyed by lower-cased name), form, files and json *)
(* (Null when the request carries no JSON).  Each stage extends the record *)
(* t of what the stages before it computed.                                *)
(***************************************************************************)
\* request.headers.get(k): header names are case-insensitive
HeaderGet(headers, k) ==
    IF Lower(k) \in DOMAIN headers THEN headers[Lower(k)] ELSE Null

\* d.get(k): None for a missing key
MapGet(d, k) == IF k \in DOMAIN d THEN d[k] ELSE Null

\* {k: d.get(k) for k in names if d.get(k)}
PresentIn(d, names) == [k \in {f \in names : Truthy(MapGet(d, f))} |-> d[k]]

\* request.json.get(ak, None)
JsonGet(json, ak) ==
    IF json.kind # "dict" THEN [exc |-> "AttributeError", value |-> Null]
    ELSE Valid(MapGet(json.items, ak))

\* po.dtype: the declared type of the parameter
dtype(pp) == pp.type

\* line 755: b(**request.json.get(ak, None))
ConstructKeyed(b, keyed) ==
    IF keyed.exc # "none" THEN keyed ELSE ModelConstruct(b.name, keyed.value)

\* lines 749-759 without the test of total_body: always the keyed lookup
BodyValueKeyed(b, ak, json, total_body) ==
    IF b # NoType THEN
        IF b.kind # "class" THEN [exc |-> "TypeError", value |-> Null]
        ELSE IF IsBaseModelClass(b) THEN ConstructKeyed(b, JsonGet(json, ak))
        ELSE JsonGet(json, ak)
    ELSE JsonGet(json, ak)

\* lines 749-759: the value of a Body parameter whose wire name is ak
BodyValue(b, ak, json, total_body) ==
    IF b # NoType THEN
        IF b.kind # "class" THEN [exc |-> "TypeError", value |-> Null]
        ELSE IF IsBaseModelClass(b) THEN
            IF total_body = 1 THEN ModelConstruct(b.name, json)
            ELSE ConstructKeyed(b, JsonGet(json, ak))
        ELSE JsonGet(json, ak)
    ELSE JsonGet(json, ak)

\* kwargs[k] = the value got, or the None of line 747 when getting it raised
BodyAssign(st, k, got, read) ==
    [kwargs |-> Merged(st.kwargs, One(k, IF got.exc = "none" THEN got.value ELSE Null)),
     exc |-> got.exc,
     json_read |-> st.json_read \/ read]

\* lines 745-759 without the test of line 748: the payload is read on GET too
BodyReadAnyMethod(st, pp, b, req, total_body) ==
    BodyAssign(st, pp.name,
               BodyValue(b, AliasOrKey(pp), req.json, total_body),
               b = NoType \/ b.kind = "class")

\* lines 745-759 for a Body parameter pp with b = get_pydantic_from_annots
BodyRead(st, pp, b, req, total_body) ==
    IF req.method = "GET" THEN [st EXCEPT !.kwargs = Merged(@, One(pp.name, Null))]
    ELSE BodyAssign(st, pp.name,
                    BodyValue(b, AliasOrKey(pp), req.json, total_body),
                    b = NoType \/ b.kind = "class")

\* lines 741-759 for one key k of empty_keys
BodyStep(st, k, req, paired_params, total_body) ==
    IF st.exc # "none" \/ k \notin SigKeys(paired_params) THEN st
    ELSE IF SigGet(paired_params, k).po.cls # "Body" THEN st
    ELSE BodyRead(st, SigGet(paired_params, k),
                  get_pydantic_from_annots(dtype(SigGet(paired_params, k))),
                  req, total_body)

RECURSIVE BodyLoop(_, _, _, _, _)
BodyLoop(st, keys, req, paired_params, total_body) ==
    IF keys = <<>> THEN st
    ELSE BodyLoop(BodyStep(st, Head(keys), req, paired_params, total_body),
                  Tail(keys), req, paired_params, total_body)

\* lines 715-716
PathStage(paths) == [after_path |-> paths]

\* lines 719-721; names are the wire names of the query fields
QueryStage(t, req, names) ==
    t @@ [after_query |->
             Merged(t.after_path, [k \in names \cap DOMAIN req.args |-> req.args[k]])]

\* lines 724-725
HeaderStage(t, req, names) ==
    t @@ [after_header |->
             Merged(t.after_query,
                    [k \in {h \in names : Truthy(HeaderGet(req.headers, h))} |->
                        HeaderGet(req.headers, k)])]

\* line 730
FileStage(t, req, names) ==
    t @@ [file_kwargs |-> IF req.method # "GET" THEN PresentIn(req.files, names)
                          ELSE NoItems]

\* lines 728-735 as a merge into what the steps before collected
FormStageMerging(t, req, names) ==
    t @@ [working |-> IF req.method # "GET"
                      THEN Merged(t.after_header,
                               Merged(PresentIn(req.form, names),
                                      [k \in DOMAIN t.file_kwargs |-> Dummy]))
                      ELSE t.after_header]

\* lines 728-735: the form and the file sentinels replace the working set
FormStage(t, req, names) ==
    t @@ [working |-> IF req.method # "GET"
                      THEN Merged(PresentIn(req.form, names),
                                  [k \in DOMAIN t.file_kwargs |-> Dummy])
                      ELSE t.after_header]

\* lines 737-738
EmptyKeysStage(t, pydantic_model, paired_params) ==
    t @@ [empty_keys |-> get_non_exist_var_in_kwargs(pydantic_model, t.working),
          total_body |-> count_required_body(paired_params),
          schema |-> pydantic_model.name]

BodyResult(t, body) ==
    t @@ [bound |-> body.kwargs, json_read |-> body.json_read, body_exc |-> body.exc]

\* lines 739-759
BodyStage(t, req, paired_params) ==
    BodyResult(t,
        IF t.total_body > 0
        THEN BodyLoop([kwargs |-> t.working, exc |-> "none", json_read |-> FALSE],
                      t.empty_keys, req, paired_params, t.total_body)
        ELSE [kwargs |-> t.working, exc |-> "none", json_read |-> FALSE])

\* lines 764-771 with the instance model of the schema
Validated(t, req, model) ==
    IF model.exc # "none"
    THEN [exc |-> model.exc, stage |-> "validate", validated |-> FALSE,
          value |-> NoItems, trace |-> t]
    ELSE [exc |-> "none", stage |-> "done", validated |-> TRUE,
          value |-> IF req.method # "GET"
                    THEN Merged(Vars(fill_all_enum_value(model.value)), t.file_kwargs)
                    ELSE Vars(fill_all_enum_value(model.value)),
          trace |-> t]

\* lines 763-771
ValidateStage(t, req, pydantic_model) ==
    IF t.body_exc # "none"
    THEN [exc |-> t.body_exc, stage |-> "body", validated |-> FALSE,
          value |-> NoItems, trace |-> t]
    ELSE Validated(t, req, ValidateModel(pydantic_model, t.bound))

\* lines 715-735
ChannelStages(paths, req, aliases, variables) ==
    FormStage(
        FileStage(
            HeaderStage(
                QueryStage(PathStage(paths), req,
                           convert_alias_to_name(aliases.query, variables)),
                req, convert_alias_to_name(aliases.header, variables)),
            req, convert_alias_to_name(aliases.file, variables)),
        req, convert_alias_to_name(aliases.form, variables))

get_kwargs(paths, req, paired_params, pydantic_model, aliases) ==
    ValidateStage(
        BodyStage(
            EmptyKeysStage(
                ChannelStages(paths, req, aliases, FieldNames(pydantic_model)),
                pydantic_model, paired_params),
            req, paired_params),
        req, pydantic_model)

(***************************************************************************)
(* modified_func, lines 511-532: the view function registered for a route. *)
(* view holds what its closure captured: func and paired_params.           *)
(***************************************************************************)
FuncParamNames(func) == {Funcs[func].params[i].name : i \in 1..Len(Funcs[func].params)}

\* func(**valid_kwargs): a keyword func does not declare is a TypeError of
\* the call itself; otherwise the body runs
CallFunc(func, valid_kwargs) ==
    IF ~(DOMAIN valid_kwargs \subseteq FuncParamNames(func))
    THEN [entered |-> FALSE, exc |-> "TypeError"]
    ELSE [entered |-> TRUE,
          exc |-> IF Funcs[func].body = "return" THEN "none" ELSE Funcs[func].body]

\* what the caller sees: the handler's result, the 422 response of lines
\* 525-529, or the exception re-raised by line 531
ViewResponse(bind, exc, stage, entered) ==
    [response |-> IF exc = "none" THEN "result"
                  ELSE IF exc = "ValidationError" THEN "422" ELSE "raised",
     exc |-> exc,
     stage |-> stage,
     invoked |-> bind.exc = "none",
     entered |-> entered,
     passed |-> bind.value,
     validated |-> bind.validated,
     trace |-> bind.trace]

\* line 524 done
AfterCall(bind, call) ==
    ViewResponse(bind, call.exc,
                 IF ~call.entered THEN "call"
                 ELSE IF call.exc # "none" THEN "handler" ELSE "done",
                 call.entered)

\* lines 516-524 with the outcome of get_kwargs
AfterBind(func, bind) ==
    IF bind.exc # "none" THEN ViewResponse(bind, bind.exc, bind.stage, FALSE)
    ELSE AfterCall(bind, CallFunc(func, bind.value))

\* lines 504-509 and 516-524: GET requests are bound against the schema
\* generated without body, the others against the full one
modified_func(view, paths, req) ==
    AfterBind(view.func,
        get_kwargs(paths, req, view.paired_params,
            generate_endpoint_pydantic(
                IF req.method = "GET" THEN "Schema_no_Body" ELSE "Schema",
                view.paired_params, req.method # "GET"),
            get_params_aliases(view.paired_params)))

(***************************************************************************)
(* Route registration: APIRouter.route and its decorator, lines 478-564,   *)
(* reached directly or through get/post/put/delete/patch (_method_route,   *)
(* lines 412-442) and add_url_rule (lines 444-476).  st is the router      *)
(* state; a call returns the state it leaves and the exception it raised.  *)
(***************************************************************************)
available_methods == {"GET", "POST", "PUT", "DELETE", "PATCH"}   \* line 207
url_prefix == <<>>                                               \* line 176

\* EndpointDefinition.__init__, lines 66-125 (the fields the router sets)
EndpointDefinition(rule, method, paired_params, aliases) ==
    [rule |-> rule, method |-> Lower(method),
     paired_params |-> paired_params, aliases |-> aliases]

\* APIRouter.update_dependencies, lines 820-823
RECURSIVE update_dependencies(_, _)
update_dependencies(deps, stack) ==
    IF stack = <<>> THEN deps
    ELSE update_dependencies(
             IF Head(stack) \in SeqToSet(deps) THEN deps ELSE Append(deps, Head(stack)),
             Tail(stack))

\* the descriptor put in front of the collection instead of behind it
AppendEndpointFirst(st, defined_ep) ==
    [st EXCEPT !.all_endpoints = <<defined_ep>> \o @,
               !.defined_endpoints = Append(@, defined_ep)]

\* line 125 (the constructor appends to the class-level list) and line 561
AppendEndpoint(st, defined_ep) ==
    [st EXCEPT !.all_endpoints = Append(@, defined_ep),
               !.defined_endpoints = Append(@, defined_ep)]

\* the loop of lines 540-561 from the i-th method on
RECURSIVE MethodLoop(_, _, _, _, _)
MethodLoop(st, methods, i, rule, paired_params) ==
    IF i > Len(methods) THEN [state |-> st, exc |-> "none"]
    ELSE IF Upper(methods[i]) \notin available_methods
    THEN [state |-> st, exc |-> "Exception"]
    ELSE MethodLoop(
             AppendEndpoint(st,
                 EndpointDefinition(validate_rule_for_swagger(url_prefix \o rule),
                                    methods[i], paired_params,
                                    get_params_aliases(paired_params))),
             methods, i + 1, rule, paired_params)

\* line 502 and Blueprint.add_url_rule(self, rule, endpoint, f, **options)
\* of line 537
BindRule(st, rule, func, methods, paired_params) ==
    [st EXCEPT !.paired_signature = Merged(@, One(url_prefix \o rule, paired_params)),
               !.url_rules = Append(@, [rule |-> rule, methods |-> methods,
                                        func |-> func,
                                        paired_params |-> paired_params])]

\* lines 500-562 with the outcome sig of _get_func_signature
decorator(st, rule, func, methods, sig) ==
    IF sig.exc # "none"
    THEN [state |-> [st EXCEPT !.handlers = sig.hs], exc |-> sig.exc]
    ELSE MethodLoop(BindRule([st EXCEPT !.handlers = sig.hs],
                             rule, func, methods, sig.pair),
                    methods, 1, rule, sig.pair)

\* route(...)(func) once the dependencies are merged
Decorate(st, rule, func, methods) ==
    decorator(st, rule, func, methods,
              _get_func_signature(rule, func, st.dependecies, st.handlers))

\* route(rule, methods=methods, dependencies=dependencies)(func)
route(st, rule, func, methods, dependencies) ==
    IF rule = <<>> THEN [state |-> st, exc |-> "IndexError"]
    ELSE IF rule[1] # "/" THEN [state |-> st, exc |-> "AssertionError"]
    ELSE Decorate([st EXCEPT !.dependecies = update_dependencies(@, dependencies)],
                  rule, func, methods)

MethodEntries == {"get", "post", "put", "delete", "patch"}

\* lines 428-430 and 460-462: route is called with validate_rule(rule)
RouteChecked(st, c, checked) ==
    IF checked.exc # "none" THEN [state |-> st, exc |-> checked.exc]
    ELSE route(st, checked.value, c.func,
               IF c.entry = "add_url_rule" THEN c.methods ELSE <<Upper(c.entry)>>,
               c.dependencies)

\* a registration call through entry point c.entry
RegisterCall(st, c) ==
    IF c.entry \in MethodEntries \cup {"add_url_rule"}
    THEN RouteChecked(st, c, validate_rule(c.rule))
    ELSE route(st, c.rule, c.func, c.methods, c.dependencies)

(***************************************************************************)
(* The example application: the registration calls it may make and the     *)
(* requests it may receive.                                                *)
(***************************************************************************)
R_root == <<"/", "x">>
R_id == <<"/", "i", "/", "<", "i", "d", ">">>
R_typed == <<"/", "i", "/", "<", "i", "n", "t", ":", "i", "d", ">">>
R_dup == <<"/", "i", "/", "<", "i", "d", ">", "/", "s", "/", "<", "i", "d", ">">>
R_typed_dup == <<"/", "<", "i", "n", "t", ":", "i", "d", ">",
                 "/", "<", "i", "n", "t", ":", "i", "d", ">">>
R_rel == <<"x">>

\* methods is read by route and add_url_rule only (["GET"] is their default)
Call(entry, rule, func, methods, dependencies) ==
    [entry |-> entry, rule |-> rule, func |-> func, methods |-> methods,
     dependencies |-> dependencies]

Calls ==
    { Call("get", R_root, "index", <<"GET">>, <<>>),
      Call("get", R_id, "get_item", <<"GET">>, <<>>),
      Call("put", R_typed, "get_item", <<"GET">>, <<>>),
      Call("route", R_typed, "get_item", <<"GET">>, <<>>),
      Call("add_url_rule", R_typed, "get_item", <<"get", "POST">>, <<>>),
      Call("get", R_dup, "get_item", <<"GET">>, <<>>),
      Call("post", R_dup, "index", <<"GET">>, <<>>),
      Call("get", R_dup, "by_dep", <<"GET">>, <<>>),
      Call("route", R_typed_dup, "get_item", <<"GET">>, <<>>),
      Call("get", R_typed_dup, "get_item", <<"GET">>, <<>>),
      Call("route", R_root, "index", <<"GET", "FOO">>, <<>>),
      Call("add_url_rule", R_root, "index", <<"FOO">>, <<>>),
      Call("route", R_rel, "index", <<"GET">>, <<>>),
      Call("patch", R_id, "index", <<"GET">>, <<"auth">>),
      Call("route", R_root, "paint", <<"GET", "POST">>, <<>>),
      Call("get", R_root, "search", <<"GET">>, <<>>),
      Call("get", R_id, "lookup", <<"GET">>, <<>>),
      Call("route", R_root, "create", <<"GET", "POST">>, <<>>),
      Call("post", R_root, "create_opt", <<"GET">>, <<>>),
      Call("post", R_root, "create2", <<"GET">>, <<>>),
      Call("put", R_root, "annotate", <<"GET">>, <<>>),
      Call("post", R_root, "upload", <<"GET">>, <<>>),
      Call("post", R_root, "upload_as", <<"GET">>, <<>>),
      Call("post", R_root, "parse", <<"GET">>, <<>>),
      Call("delete", R_root, "crash", <<"GET">>, <<>>) }

Req(args, headers, form, files, json) ==
    [args |-> args, headers |-> headers, form |-> form, files |-> files, json |-> json]

Two(k1, v1, k2, v2) == [x \in {k1, k2} |-> IF x = k1 THEN v1 ELSE v2]

Item_a == Dict(One("name", Str("a")))
Item_b == Dict(Two("name", Str("b"), "color", Str("blue")))

\* JSON payloads: a flat Item that also has keys "item", "payload" and "n";
\* one sub-object per body key; the same without "meta"; one with no "name"
J_flat == Dict([x \in {"name", "color", "item", "payload", "n"} |->
               CASE x = "name" -> Str("a")
                 [] x = "color" -> Str("red")
                 [] x = "n" -> Str("memo")
                 [] OTHER -> Item_b])
J_two == Dict([x \in {"user", "meta", "m"} |->
               CASE x = "user" -> Item_a
                 [] x = "meta" -> Item_b
                 [] OTHER -> Dict(One("name", Str("z")))])
J_user == Dict(One("user", Item_a))
J_noname == Dict(One("color", Str("red")))

RequestShapes ==
    { Req(NoItems, NoItems, NoItems, NoItems, Null),
      Req(NoItems, NoItems, NoItems, NoItems, J_flat),
      Req(NoItems, NoItems, NoItems, NoItems, J_two),
      Req(NoItems, NoItems, NoItems, NoItems, J_user),
      Req(NoItems, NoItems, NoItems, NoItems, J_noname),
      Req(One("color", Str("red")), NoItems, NoItems, NoItems, Null),
      Req(One("color", Str("green")), NoItems, NoItems, NoItems, Null),
      Req(Two("query", Str("x"), "q", Str("y")), One("x-token", Str("tok")),
          NoItems, NoItems, Null),
      Req(One("id", Str("9")), One("x-token", Str("")), NoItems, NoItems, Null),
      Req(NoItems, NoItems, NoItems, One("f", FileObj("a.txt")), Null),
      Req(NoItems, NoItems, One("t", Str("T")), One("upload", FileObj("b.txt")), Null) }

\* the placeholders of a rule as the routing layer reads them
Placeholders(rule) ==
    Occurrences(rule, <<"<", "i", "d", ">">>)
        + Occurrences(rule, <<"<", "i", "n", "t", ":", "i", "d", ">">>)

\* what the routing layer matched for the rule: one value per placeholder
PathValues(rule) ==
    IF Placeholders(rule) > 0 THEN One("id", Str("7")) ELSE NoItems

\* the routing layer refuses a rule that names a placeholder twice
Routable(rule) == Placeholders(rule) <= 1

(***************************************************************************)
(* The state machine.                                                      *)
(***************************************************************************)
RouterState ==
    [all_endpoints |-> all_endpoints, defined_endpoints |-> defined_endpoints,
     paired_signature |-> paired_signature, url_rules |-> url_rules,
     dependecies |-> dependecies, handlers |-> handlers]

NoRuleResult == [op |-> "none", exc |-> "none", value |-> <<>>]

NoResolve == [path |-> <<>>, func |-> "index", results |-> <<>>]

NoCall == Call("none", <<>>, "index", <<>>, <<>>)

InitRouter ==
    /\ all_endpoints = <<>>
    /\ defined_endpoints = <<>>
    /\ paired_signature = [x \in {} |-> <<>>]
    /\ url_rules = <<>>
    /\ dependecies = <<>>
    /\ handlers = Funcs
    /\ resolved = NoResolve
    /\ reg = [n |-> 0, call |-> NoCall, exc |-> "none", first |-> 1]
    /\ last = [served |-> FALSE]

Init ==
    /\ InitRouter
    /\ rule_in = <<>>
    /\ rule_res = NoRuleResult

\* one registration call, whatever its outcome
Register(c) ==
    /\ reg.n < MaxRegs
    /\ \E res \in {RegisterCall(RouterState, c)} :
          /\ all_endpoints' = res.state.all_endpoints
          /\ defined_endpoints' = res.state.defined_endpoints
          /\ paired_signature' = res.state.paired_signature
          /\ url_rules' = res.state.url_rules
          /\ dependecies' = res.state.dependecies
          /\ handlers' = res.state.handlers
          /\ reg' = [n |-> reg.n + 1, call |-> c, exc |-> res.exc,
                     first |-> Len(all_endpoints) + 1]
    /\ UNCHANGED <<resolved, last, rule_in, rule_res>>

\* the request of the given method and shape
Request(method, shape) ==
    [method |-> method, args |-> shape.args, headers |-> shape.headers,
     form |-> shape.form, files |-> shape.files, json |-> shape.json]

\* one request dispatched to the i-th URL rule of the router
Serve(i, method, shape) ==
    /\ i \in 1..Len(url_rules)
    /\ Routable(url_rules[i].rule)
    /\ method \in {Upper(url_rules[i].methods[m]) : m \in 1..Len(url_rules[i].methods)}
    /\ last' = [served |-> TRUE, func |-> url_rules[i].func,
                rule |-> url_rules[i].rule,
                paired_params |-> url_rules[i].paired_params,
                req |-> Request(method, shape),
                out |-> modified_func(url_rules[i], PathValues(url_rules[i].rule),
                                      Request(method, shape))]
    /\ UNCHANGED <<all_endpoints, defined_endpoints, paired_signature, url_rules,
                   dependecies, handlers, resolved, reg, rule_in, rule_res>>

Next ==
    \/ \E c \in Calls : Register(c)
    \/ \E i \in 1..MaxRegs, method \in available_methods \cup {"FOO"},
          shape \in RequestShapes : Serve(i, method, shape)

Spec == Init /\ [][Next]_vars

(***************************************************************************)
(* SpecServe: the requests a router serves after one registration call.    *)
(***************************************************************************)
InitServe ==
    /\ \E c \in Calls :
          \E res \in {RegisterCall(
                  [all_endpoints |-> <<>>, defined_endpoints |-> <<>>,
                   paired_signature |-> [x \in {} |-> <<>>], url_rules |-> <<>>,
                   dependecies |-> <<>>, handlers |-> Funcs], c)} :
              /\ all_endpoints = res.state.all_endpoints
              /\ defined_endpoints = res.state.defined_endpoints
              /\ paired_signature = res.state.paired_signature
              /\ url_rules = res.state.url_rules
              /\ dependecies = res.state.dependecies
              /\ handlers = res.state.handlers
              /\ reg = [n |-> 1, call |-> c, exc |-> res.exc, first |-> 1]
    /\ resolved = NoResolve
    /\ last = [served |-> FALSE]
    /\ rule_in = <<>>
    /\ rule_res = NoRuleResult

NextServe ==
    \E i \in 1..MaxRegs, method \in available_methods \cup {"FOO"},
       shape \in RequestShapes : Serve(i, method, shape)

SpecServe == InitServe /\ [][NextServe]_vars

(***************************************************************************)
(* SpecRule: the rule normaliser applied to bounded rule strings.          *)
(***************************************************************************)
Segments ==
    { <<"/">>, <<"a">>,
      <<"<", "a", ">">>,
      <<"<", "t", ":", "a", ">">>,
      <<"<", "t", ":", "t", ":", "a", ">">>,
      <<"<">>, <<">">> }

Longer(shorter) == shorter \cup { r \o s : r \in shorter, s \in Segments }

RECURSIVE RulesOfSegs(_)
RulesOfSegs(n) ==
    IF n = 0 THEN { <<>> } ELSE Longer(RulesOfSegs(n - 1))

RuleStrings == RulesOfSegs(MaxSegs)

ApplyValidateRule ==
    /\ \E r \in {validate_rule(rule_in)} :
          rule_res' = [op |-> "validate_rule", exc |-> r.exc, value |-> r.value]
    /\ UNCHANGED <<all_endpoints, defined_endpoints, paired_signature, url_rules,
                   dependecies, handlers, resolved, reg, last, rule_in>>

ApplyValidateRuleForSwagger ==
    /\ rule_res' = [op |-> "validate_rule_for_swagger", exc |-> "none",
                    value |-> validate_rule_for_swagger(rule_in)]
    /\ UNCHANGED <<all_endpoints, defined_endpoints, paired_signature, url_rules,
                   dependecies, handlers, resolved, reg, last, rule_in>>

InitRule ==
    /\ InitRouter
    /\ rule_in \in RuleStrings
    /\ rule_res = NoRuleResult

NextRule == ApplyValidateRule \/ ApplyValidateRuleForSwagger

SpecRule == InitRule /\ [][NextRule]_vars

(***************************************************************************)
(* The signature resolver called by itself: a router with or without a     *)
(* router-level dependency resolves one callable against one rule, again   *)
(* and again.  Each call sees the callables as the calls before left them. *)
(***************************************************************************)
Resolve ==
    /\ Len(resolved.results) < MaxResolves
    /\ \E r \in {_get_func_signature(resolved.path, resolved.func,
                                      dependecies, handlers)} :
          /\ resolved' = [resolved EXCEPT
                 !.results = Append(@, [exc |-> r.exc, pair |-> r.pair])]
          /\ handlers' = r.hs
    /\ UNCHANGED <<all_endpoints, defined_endpoints, paired_signature, url_rules,
                   dependecies, reg, last, rule_in, rule_res>>

InitSig ==
    /\ all_endpoints = <<>>
    /\ defined_endpoints = <<>>
    /\ paired_signature = [x \in {} |-> <<>>]
    /\ url_rules = <<>>
    /\ dependecies \in {<<>>, <<"auth">>}
    /\ handlers = Funcs
    /\ resolved \in {[path |-> p, func |-> f, results |-> <<>>] :
                        p \in {R_root, R_id, R_typed, R_dup, R_typed_dup, R_rel},
                        f \in DOMAIN Funcs}
    /\ reg = [n |-> 0, call |-> NoCall, exc |-> "none", first |-> 1]
    /\ last = [served |-> FALSE]
    /\ rule_in = <<>>
    /\ rule_res = NoRuleResult

NextSig == Resolve

SpecSig == InitSig /\ [][NextSig]_vars

(***************************************************************************)
(* SpecEndpoints: registration calls and requests without content, for    *)
(* what a registration and a request do to the endpoint collection.        *)
(***************************************************************************)
NextEndpoints ==
    \/ \E c \in Calls : Register(c)
    \/ \E i \in 1..MaxRegs, method \in available_methods : 
          Serve(i, method, Req(NoItems, NoItems, NoItems, NoItems, Null))

SpecEndpoints == Init /\ [][NextEndpoints]_vars
(***************************************************************************)
(* Properties of the binding pipeline and of route registration.           *)
(***************************************************************************)

\* C1: on a non-GET request to a route whose signature has exactly one Body
\* parameter, of a structured type, the value bound to that parameter is the
\* structured type built from the entire JSON payload (and when that
\* construction raises, binding stops there with that exception); it is not
\* built from the sub-object under the parameter's key.
C1_SingleBodyFromWholePayload ==
    (/\ last.served
     /\ last.req.method # "GET"
     /\ count_required_body(last.paired_params) = 1) =>
        \A i \in 1..Len(last.paired_params) :
            (/\ last.paired_params[i].po.cls = "Body"
             /\ IsBaseModelClass(get_pydantic_from_annots(last.paired_params[i].type))) =>
                \E whole \in {ModelConstruct(
                        get_pydantic_from_annots(last.paired_params[i].type).name,
                        last.req.json)} :
                    IF whole.exc = "none"
                    THEN last.out.trace.bound[last.paired_params[i].name] = whole.value
                    ELSE last.out.exc = whole.exc /\ last.out.stage = "body"

\* a POST to create(item: Item) whose payload is an Item and also has a key
\* "item" holding another Item: the bound value is the one of the payload
C1_Witness ==
    /\ last.served
    /\ last.func = "create"
    /\ last.req.method = "POST"
    /\ last.req.json = J_flat
    /\ last.out.trace.bound["item"] =
           ModelObj("Item", [name |-> Str("a"), color |-> EnumValue("Color", "red")])
    /\ last.out.entered

\* C2: on a non-GET request with a JSON object to a route with two or more
\* Body parameters, no lookup raises (binding of the bodies stops only when a
\* sub-object that is present is invalid), and each Body parameter is bound
\* to what the payload holds under its alias if one is declared, else under
\* its binding key; null when the payload lacks that key.
C2_EachBodyReadUnderOwnKey ==
    (/\ last.served
     /\ last.req.method # "GET"
     /\ last.req.json.kind = "dict"
     /\ count_required_body(last.paired_params) >= 2) =>
        /\ last.out.stage = "body" => last.out.exc = "ValidationError"
        /\ last.out.stage # "body" =>
              \A i \in 1..Len(Funcs[last.func].params) :
                  LET p == Funcs[last.func].params[i]
                      ak == IF p.default.alias # NoAlias THEN p.default.alias ELSE p.name
                      b == get_pydantic_from_annots(p.annot)
                  IN SigGet(last.paired_params, p.name).po.cls = "Body" =>
                        last.out.trace.bound[p.name] =
                            IF ak \notin DOMAIN last.req.json.items THEN Null
                            ELSE IF b = NoType THEN last.req.json.items[ak]
                            ELSE ModelConstruct(b.name, last.req.json.items[ak]).value

\* C3: a registration whose rule names the same placeholder more than once
\* ends with SwaggerPathError, whatever the entry point, the method and the
\* parameters of the handler.
C3_DuplicatePlaceholderRejected ==
    (reg.n > 0 /\ Placeholders(reg.call.rule) > 1) => reg.exc = "SwaggerPathError"

\* C4: once validation has succeeded, no value of the mapping passed to the
\* handler is an enum member, neither at the top level nor inside a mapping
\* or a structured value.
C4_NoEnumReachesHandler ==
    (last.served /\ last.out.validated) =>
        \A k \in DOMAIN last.out.passed :
            /\ last.out.passed[k].kind # "enum"
            /\ last.out.passed[k].kind = "model" =>
                  \A f \in DOMAIN last.out.passed[k].data :
                      last.out.passed[k].data[f].kind # "enum"
            /\ last.out.passed[k].kind = "dict" =>
                  \A f \in DOMAIN last.out.passed[k].items :
                      last.out.passed[k].items[f].kind # "enum"

\* C5: on a non-GET request that uploads a file for a File parameter, the
\* value validation is given for it is the sentinel, and once validation has
\* succeeded the mapping passed to the handler holds the uploaded file under
\* the parameter's binding key.
C5_FileBypassesValidation ==
    (last.served /\ last.req.method # "GET") =>
        \A i \in 1..Len(last.paired_params) :
            (/\ last.paired_params[i].po.cls = "File"
             /\ AliasOrKey(last.paired_params[i]) \in DOMAIN last.req.files) =>
                /\ last.out.trace.bound[AliasOrKey(last.paired_params[i])] = Dummy
                /\ last.out.validated =>
                      last.out.passed[last.paired_params[i].name] =
                          last.req.files[AliasOrKey(last.paired_params[i])]

\* C6: when validation of the request's values fails (of a structured body
\* or of the working value set) the handler is not called and the response
\* is 422; any other exception, raised while binding or by the handler, is
\* raised to the caller and is not a 422.
C6_Only422OnValidationFailure ==
    last.served =>
        /\ (last.out.exc = "ValidationError"
               /\ last.out.stage \in {"body", "validate"}) =>
              (~last.out.entered /\ last.out.response = "422")
        /\ (last.out.exc # "none"
               /\ ~(last.out.exc = "ValidationError"
                      /\ last.out.stage \in {"body", "validate"})) =>
              last.out.response = "raised"

\* C7: on a rule whose brackets pair up, validate_rule raises exactly when
\* one placeholder holds more than one ':'; so a rule of placeholders <name>
\* and <type:name> only, however many, is accepted.
C7_RejectsIffDoubleQualifier ==
    (/\ rule_res.op = "validate_rule"
     /\ \A i \in 1..Len(rule_in) :
           /\ rule_in[i] = "<" =>
                 \E j \in (i+1)..Len(rule_in) :
                     /\ rule_in[j] = ">"
                     /\ \A m \in (i+1)..(j-1) : rule_in[m] \notin {"<", ">"}
           /\ rule_in[i] = ">" =>
                 \E j \in 1..(i-1) :
                     /\ rule_in[j] = "<"
                     /\ \A m \in (j+1)..(i-1) : rule_in[m] \notin {"<", ">"}) =>
        (rule_res.exc # "none" <=>
            \E i \in 1..Len(rule_in) :
                /\ rule_in[i] = "<"
                /\ Cardinality({k \in i..Len(rule_in) :
                       /\ rule_in[k] = ":"
                       /\ \A m \in i..k : rule_in[m] # ">"}) > 1)

\* C8: a registration that names a method outside the allowed set fails,
\* and the one that fails on the method leaves the endpoint collection, the
\* router's defined_endpoints, its signature table and its URL rules as they
\* were.
C8_NoPartialRegistration ==
    [][reg'.n = reg.n + 1 =>
          /\ (/\ reg'.call.entry \in {"route", "add_url_rule"}
              /\ \E m \in 1..Len(reg'.call.methods) :
                     Upper(reg'.call.methods[m]) \notin available_methods) =>
                 reg'.exc # "none"
          /\ reg'.exc = "Exception" =>
                 UNCHANGED <<all_endpoints, defined_endpoints,
                             paired_signature, url_rules>>]_vars

\* C9: when binding succeeds the mapping passed to the handler has no key
\* but binding keys of the route's signature.
C9_HandlerKeyedByBindingKeys ==
    (last.served /\ last.out.invoked) =>
        DOMAIN last.out.passed \subseteq SigKeys(last.paired_params)

\* the documented form of a rule whose brackets pair up: <name> and
\* <type:name> become {name}, every other character is kept
RECURSIVE DocumentedPath(_)
DocumentedPath(rule) ==
    IF rule = <<>> THEN <<>>
    ELSE IF Head(rule) = "<" THEN
        LET close == IndexOf(rule, ">")
            inner == SubSeq(rule, 2, close - 1)
        IN <<"{">> \o SubSeq(inner, LastIndexOf(inner, ":") + 1, Len(inner)) \o <<"}">>
               \o DocumentedPath(SubSeq(rule, close + 1, Len(rule)))
    ELSE <<Head(rule)>> \o DocumentedPath(Tail(rule))

\* C10: after a registration that succeeds, through any entry point, every
\* endpoint it added holds the documented form of the rule it was given.
C10_DescriptorPathRewritten ==
    (reg.n > 0 /\ reg.exc = "none") =>
        /\ Len(all_endpoints) >= reg.first
        /\ \A i \in reg.first..Len(all_endpoints) :
               all_endpoints[i].rule = DocumentedPath(reg.call.rule)

\* C11: binding a GET request does not read the JSON payload: every Body
\* parameter of the route is bound to null, and stays null in what the
\* handler is passed, whatever the payload holds; GET is validated against
\* the schema generated without body and every other method against the
\* full one.
C11_GetNeverReadsPayload ==
    last.served =>
        /\ last.out.trace.schema =
               IF last.req.method = "GET" THEN "Schema_no_Body" ELSE "Schema"
        /\ last.req.method = "GET" =>
              /\ ~last.out.trace.json_read
              /\ \A i \in 1..Len(last.paired_params) :
                     last.paired_params[i].po.cls = "Body" =>
                        /\ last.out.trace.bound[last.paired_params[i].name] = Null
                        /\ last.out.validated =>
                              last.out.passed[last.paired_params[i].name] = Null

\* a GET to create(item: Item) that carries a JSON payload the Item could be
\* built from: item is null and the handler runs
C11_Witness ==
    /\ last.served
    /\ last.func = "create"
    /\ last.req.method = "GET"
    /\ last.req.json = J_flat
    /\ ~last.out.trace.json_read
    /\ last.out.entered
    /\ last.out.passed["item"] = Null

\* C12: the query merge of binding leaves every value that the path match
\* put in the working set as it was, for every request and route.
C12_QueryKeepsPathValues ==
    last.served =>
        \A k \in DOMAIN last.out.trace.after_path :
            last.out.trace.after_query[k] = last.out.trace.after_path[k]

\* C13: on a non-GET request the working set after the form and file step
\* holds nothing but the form fields present in the request, with their
\* values, and the sentinel for each uploaded file; no path, query or header
\* value collected before is in it or in what validation is given.
C13_FormReplacesWorkingSet ==
    (last.served /\ last.req.method # "GET") =>
        /\ \A k \in DOMAIN last.out.trace.working :
              \/ k \in DOMAIN last.req.files /\ last.out.trace.working[k] = Dummy
              \/ k \in DOMAIN last.req.form
                    /\ last.out.trace.working[k] = last.req.form[k]
        /\ \A k \in DOMAIN last.out.trace.after_header :
              k \notin (DOMAIN last.req.form \cup DOMAIN last.req.files) =>
                  /\ k \notin DOMAIN last.out.trace.working
                  /\ k \notin DOMAIN last.out.trace.bound

\* a PUT to /i/<id> on get_item(id): the path value is collected, the
\* working set is empty and validation fails for want of id
C13_Witness ==
    /\ last.served
    /\ last.func = "get_item"
    /\ last.req.method = "PUT"
    /\ last.out.trace.after_path = One("id", Str("7"))
    /\ last.out.trace.working = NoItems
    /\ last.out.response = "422"

\* C14: resolving a signature leaves the callables as they were (their
\* annotations and their default objects, dependency markers included), and
\* a repeated call with the same inputs gives the same outcome.
C14_ResolverPure ==
    /\ handlers = Funcs
    /\ \A i, j \in 1..Len(resolved.results) :
           resolved.results[i] = resolved.results[j]

\* the names a callable declares for itself: its parameters but those whose
\* default is a dependency marker
DeclaredNames(f) ==
    {Funcs[f].params[i].name :
        i \in {n \in 1..Len(Funcs[f].params) :
                  Funcs[f].params[n].default.cls # "Depends"}}

\* C15: on a router with a callable router-level dependency every call of
\* the resolver returns (it does not end in unbounded recursion), and the
\* signature it returns holds the handler's own parameters and those of
\* every router-level dependency.
C15_RouterDependenciesMerged ==
    dependecies # <<>> =>
        \A i \in 1..Len(resolved.results) :
            /\ resolved.results[i].exc \in {"none", "SwaggerPathError"}
            /\ resolved.results[i].exc = "none" =>
                  /\ DeclaredNames(resolved.func)
                        \subseteq SigKeys(resolved.results[i].pair)
                  /\ \A d \in 1..Len(dependecies) :
                        DeclaredNames(dependecies[d])
                           \subseteq SigKeys(resolved.results[i].pair)

\* the (path, method) pairs of a sequence of endpoint descriptors, in order
PathMethods(eps) == [i \in 1..Len(eps) |-> <<eps[i].rule, eps[i].method>>]

\* the (path, method) pairs one bound URL rule registers, in the order of
\* its methods
RegisteredPairs(u) ==
    [i \in 1..Len(u.methods) |->
        <<validate_rule_for_swagger(url_prefix \o u.rule), Lower(u.methods[i])>>]

\* C16: every step keeps the endpoint collection as a prefix of the new one
\* (no descriptor is removed, moved or changed); a request leaves it as it
\* is; a registration that succeeds appends one descriptor for each
\* (path, method) pair it registers, in the order of the methods, and
\* nothing else.
C16_EndpointsAppendOnly ==
    [][/\ Len(all_endpoints') >= Len(all_endpoints)
       /\ SubSeq(all_endpoints', 1, Len(all_endpoints)) = all_endpoints
       /\ last' # last => all_endpoints' = all_endpoints
       /\ (reg'.n = reg.n + 1 /\ reg'.exc = "none") =>
             /\ Len(url_rules') = Len(url_rules) + 1
             /\ PathMethods(SubSeq(all_endpoints', Len(all_endpoints) + 1,
                                   Len(all_endpoints')))
                   = RegisteredPairs(url_rules'[Len(url_rules')])]_vars

C16_Witness ==
    /\ reg.n = 2 /\ reg.exc = "none"
    /\ reg.first = 3 /\ Len(all_endpoints) = 4
    /\ PathMethods(all_endpoints)[1] = PathMethods(all_endpoints)[3]
    /\ last.served

\* a router as its construction leaves it, no route registered
FreshRouter ==
    [all_endpoints |-> <<>>, defined_endpoints |-> <<>>,
     paired_signature |-> [x \in {} |-> <<>>], url_rules |-> <<>>,
     dependecies |-> <<>>, handlers |-> Funcs]

\* C17: a registration ends as the same call ends on a router where no
\* route was registered before, and the signature it stores is the same:
\* the dependencies given to an earlier registration add nothing to it.
C17_SignatureIndependentOfEarlierRoutes ==
    reg.n > 0 =>
        \E fresh \in {RegisterCall(FreshRouter, reg.call)} :
            /\ reg.exc = fresh.exc
            /\ reg.exc = "none" =>
                  url_rules[Len(url_rules)].paired_params
                     = fresh.state.url_rules[1].paired_params
====
